---- MODULE Spec2Model ----
(***************************************************************************)
(* Model of the property-listing backend: the document store (Property,   *)
(* Favorite, Recommendation, User counters), the Redis cache in front of  *)
(* the list reads, and the request handlers of the controllers.  Every    *)
(* handler is split at its awaits: one action per store or cache call, so *)
(* that concurrent requests interleave exactly where the event loop lets  *)
(* them.                                                                   *)
(***************************************************************************)
EXTENDS Integers, Sequences, FiniteSets, TLC

\* ---------------------------------------------------------------- bounds
MaxProps == 2          \* Property documents that can ever be created
MaxWrites == 2         \* property write requests accepted in one behaviour
MaxRecs == 2           \* Recommendation documents that can ever be created
MaxFavOps == 4         \* favorite requests accepted in one behaviour
MaxRecOps == 3         \* recommendation requests accepted in one behaviour
MaxDay == 32           \* the clock stops advancing after this day
MaxDailySteps == 2     \* days the clock can advance one at a time

\* ------------------------------------------------------ program constants
DEFAULT_PAGE_SIZE == 20
MAX_PAGE_SIZE == 100
EXPIRY_DAYS == 30

Users == {"u1", "u2"}
\* request slots: two requests can be in flight at the same time
Procs == {"a", "b"}
PropIds == 1..MaxProps
RecIds == 1..MaxRecs

\* PROPERTY_TYPES, two of the six values
PropertyTypes == {"Villa", "Plot"}

NoFilter == "none"
NoDoc == [exists |-> FALSE]
Miss == [hit |-> FALSE]
Idle == [op |-> "idle", pc |-> "idle"]

VARIABLES
    props,            \* Property collection: PropIds -> document or NoDoc
    propertiesListed, \* User.stats.propertiesListed
    cache,            \* Redis: key -> entry or Miss
    redisUp,          \* FALSE while every Redis command rejects
    writes,           \* number of property write requests accepted so far
    favorites,        \* Favorite collection: set of documents
    favoriteCount,    \* User.stats.favoriteCount
    favOps,           \* number of favorite requests accepted so far
    recs,             \* Recommendation collection: RecIds -> document or NoDoc
    recsSent,         \* User.stats.recommendationsSent
    recsReceived,     \* User.stats.recommendationsReceived
    recsEnabled,      \* User.preferences.notifications.recommendations
    recOps,           \* number of recommendation requests accepted so far
    now,              \* the clock, in days
    users,            \* User collection: Users -> document or NoDoc
    reminderOps,      \* history: sendReminder requests accepted, and answered with success
    favDone,          \* history: addToFavorites / removeFromFavorites answered with success
    req               \* per request slot: the handler's position and locals

vars == <<props, propertiesListed, cache, redisUp, writes, favorites,
          favoriteCount, favOps, recs, recsSent, recsReceived, recsEnabled,
          recOps, now, users, reminderOps, favDone, req>>

propVars == <<props, propertiesListed, cache, redisUp, writes>>
favVars == <<favorites, favoriteCount, favOps, favDone>>
recVars == <<recs, recsSent, recsReceived, recsEnabled, recOps, now>>

Max(a, b) == IF a >= b THEN a ELSE b
Min(a, b) == IF a <= b THEN a ELSE b

\* --------------------------------------------------------------- requests
Done(r) == req[r].pc = "done"
Finish(r, status, more) ==
    req' = [req EXCEPT ![r] = [pc |-> "done", status |-> status] @@ more @@ @]
Goto(r, pc, more) ==
    req' = [req EXCEPT ![r] = [pc |-> pc] @@ more @@ @]

\* The response has been written: the slot is free for the next request.
Return(r) ==
    /\ Done(r)
    /\ req' = [req EXCEPT ![r] = Idle]
    /\ UNCHANGED <<propVars, favVars, recVars, users, reminderOps>>

\* ------------------------------------------------------------------ Redis
\* RedisClient.getObject: a rejected command is logged and read as null.
RedisGetObject(key) ==
    IF redisUp THEN cache[key] ELSE Miss

\* RedisClient.deletePattern("properties:*"): KEYS then DEL; a rejected
\* command is logged and the call returns 0, leaving every key in place.
RedisDeletePattern(c) ==
    IF redisUp
    THEN [k \in DOMAIN c |-> IF k.ns = "properties" THEN Miss ELSE c[k]]
    ELSE c

\* RedisClient.deletePattern("recommendations:*"), in the same way
RedisDeleteRecommendations(c) ==
    IF redisUp
    THEN [k \in DOMAIN c |-> IF k.ns = "recommendations" THEN Miss ELSE c[k]]
    ELSE c

\* setEx with a TTL: the entry can lapse at any later moment.
CacheExpire ==
    /\ \E k \in DOMAIN cache :
          /\ cache[k] # Miss
          /\ cache' = [cache EXCEPT ![k] = Miss]
    /\ UNCHANGED <<props, propertiesListed, redisUp, writes, favVars, recVars, req, users, reminderOps>>

RedisGoesDown ==
    /\ redisUp
    /\ redisUp' = FALSE
    /\ UNCHANGED <<props, propertiesListed, cache, writes, favVars, recVars, req, users, reminderOps>>

RedisComesUp ==
    /\ ~redisUp
    /\ redisUp' = TRUE
    /\ UNCHANGED <<props, propertiesListed, cache, writes, favVars, recVars, req, users, reminderOps>>


\* ------------------------------------------------------- Property queries
\* new RegExp(type, 'i') tested against the stored type: the request values
\* are the lower-case spellings, and no type name contains another.
LowerCase(t) == IF t = "Villa" THEN "villa" ELSE IF t = "Plot" THEN "plot" ELSE t
RegExpTest(pattern, value) == LowerCase(value) = LowerCase(pattern)

TypeFilters == {NoFilter, "villa", "plot"}
Queries == [type : TypeFilters, page : {1}, limit : {DEFAULT_PAGE_SIZE}]

PageNum(q) == Max(1, q.page)
LimitNum(q) == Min(q.limit, MAX_PAGE_SIZE)
Skip(q) == (PageNum(q) - 1) * LimitNum(q)

\* filter = { isActive: true, type?: RegExp }
Matches(doc, q) ==
    /\ doc.exists
    /\ doc.isActive
    /\ (q.type # NoFilter => RegExpTest(q.type, doc.ptype))

Matching(store, q) == {p \in PropIds : Matches(store[p], q)}

\* sort({ createdAt: -1 }): ids are handed out in creation order.
RECURSIVE SortDesc(_)
SortDesc(S) ==
    IF S = {} THEN <<>>
    ELSE LET m == CHOOSE x \in S : \A y \in S : y <= x
         IN <<m>> \o SortDesc(S \ {m})

PageOf(store, q) ==
    LET sorted == SortDesc(Matching(store, q))
    IN SubSeq(sorted, Skip(q) + 1, Min(Skip(q) + LimitNum(q), Len(sorted)))

\* Property.find(filter).sort().skip().limit() with countDocuments(filter),
\* and the pagination block of the response.
ListQuery(store, q) ==
    LET page == PageOf(store, q)
        total == Cardinality(Matching(store, q))
        totalPages == (total + LimitNum(q) - 1) \div LimitNum(q)
    IN [properties |-> [i \in 1..Len(page) |->
                           [id |-> page[i], ptype |-> store[page[i]].ptype]],
        totalCount |-> total,
        totalPages |-> totalPages,
        currentPage |-> PageNum(q),
        limit |-> LimitNum(q),
        hasNextPage |-> PageNum(q) < totalPages]

\* `properties:${JSON.stringify({filter, sort, page, limit})}`: a RegExp has
\* no enumerable property, so JSON.stringify writes it as {} whatever its
\* source; an absent filter leaves no entry in the object.
JsonStringifyRegExp(f) == IF f = NoFilter THEN "absent" ELSE "{}"
CacheKey(q) ==
    [ns |-> "properties",
     type |-> JsonStringifyRegExp(q.type),
     page |-> PageNum(q),
     limit |-> LimitNum(q)]

ListKeys == {CacheKey(q) : q \in Queries}

\* searchProperties: { $text: { $search: query }, isActive: true } over the
\* text index, of which the title is modelled; every listing carries the
\* same title, and a query is one word.
Title == "sea view"
WordsOf(title) == IF title = "sea view" THEN {"sea", "view"} ELSE {}
SearchQueries == {"sea", "hill"}
TextSearch(doc, query) == doc.exists /\ doc.isActive /\ query \in WordsOf(doc.title)

\* `search_results:${JSON.stringify(query)}`
SearchKey(query) == [ns |-> "search_results", query |-> query]
SearchKeys == {SearchKey(query) : query \in SearchQueries}

\* find(...).sort(...).limit(50): every bound of the model is below 50
SearchResult(store, query) ==
    LET found == SortDesc({p \in PropIds : TextSearch(store[p], query)})
    IN [properties |-> [i \in 1..Len(found) |->
                           [id |-> found[i], ptype |-> store[found[i]].ptype]],
        count |-> Len(found)]

\* History: a store write makes every result computed before it out of date,
\* whether it sits in the cache or in the locals of a reader about to cache it.
Outdate(e) == IF e = Miss THEN Miss ELSE [e EXCEPT !.stale = TRUE]
OutdatedCache(c) == [k \in DOMAIN c |-> Outdate(c[k])]
OutdatedReq(rq) ==
    [r \in DOMAIN rq |->
        IF rq[r].op = "getProperties" /\ rq[r].pc = "set"
        THEN [rq[r] EXCEPT !.result = Outdate(@)]
        ELSE rq[r]]

\* --------------------------------------------- PropertyController handlers
\* getProperties, up to the cache probe: a hit is the response.
GetPropertiesProbe(r, q) ==
    /\ req[r] = Idle
    /\ LET e == RedisGetObject(CacheKey(q))
           base == [op |-> "getProperties", q |-> q, cacheFailed |-> ~redisUp,
                    quiet |-> \A o \in Procs \ {r} : req[o].pc \in {"idle", "done"}]
       IN IF e # Miss
          THEN Finish(r, 200, [body |-> e.body, fromCache |-> TRUE,
                               stale |-> e.stale, computedFor |-> e.q] @@ base)
          ELSE Goto(r, "query", base)
    /\ UNCHANGED <<propVars, favVars, recVars, users, reminderOps>>

\* the store round trip; the result remembers the query it was computed for
GetPropertiesQuery(r) ==
    /\ req[r].op = "getProperties" /\ req[r].pc = "query"
    /\ Goto(r, "set", [result |-> [hit |-> TRUE,
                                   body |-> ListQuery(props, req[r].q),
                                   stale |-> FALSE, q |-> req[r].q]])
    /\ UNCHANGED <<propVars, favVars, recVars, users, reminderOps>>

\* await redisClient.set(...): RedisClient.set rethrows a rejected command,
\* and the handler's catch answers 500.
GetPropertiesSet(r) ==
    /\ req[r].op = "getProperties" /\ req[r].pc = "set"
    /\ IF redisUp
       THEN /\ cache' = [cache EXCEPT ![CacheKey(req[r].q)] = req[r].result]
            /\ Finish(r, 200, [body |-> req[r].result.body, fromCache |-> FALSE,
                               stale |-> req[r].result.stale,
                               computedFor |-> req[r].result.q])
       ELSE /\ cache' = cache
            /\ Finish(r, 500, [cacheFailed |-> TRUE])
    /\ UNCHANGED <<props, propertiesListed, redisUp, writes, favVars, recVars, users, reminderOps>>

NextPropId == Cardinality({p \in PropIds : props[p].exists}) + 1

\* createProperty: new Property({...body, createdBy}) and property.save()
CreatePropertySave(r, u, t) ==
    /\ req[r] = Idle
    /\ users[u].exists
    /\ writes < MaxWrites
    /\ NextPropId \in PropIds
    /\ props' = [props EXCEPT ![NextPropId] =
                    [exists |-> TRUE, createdBy |-> u, isActive |-> TRUE, ptype |-> t,
                     title |-> Title]]
    /\ cache' = OutdatedCache(cache)
    /\ writes' = writes + 1
    /\ req' = [OutdatedReq(req) EXCEPT ![r] =
                  [op |-> "createProperty", pc |-> "stats", user |-> u,
                   id |-> NextPropId, cacheFailed |-> FALSE]]
    /\ UNCHANGED <<propertiesListed, redisUp, favVars, recVars, users, reminderOps>>

\* User.findByIdAndUpdate(user, { $inc: { 'stats.propertiesListed': 1 } })
CreatePropertyStats(r) ==
    /\ req[r].op = "createProperty" /\ req[r].pc = "stats"
    /\ propertiesListed' = [propertiesListed EXCEPT ![req[r].user] = @ + 1]
    /\ Goto(r, "invalidate", <<>>)
    /\ UNCHANGED <<props, cache, redisUp, writes, favVars, recVars, users, reminderOps>>

\* redisClient.deletePattern(`properties:*`), then the 201 response
CreatePropertyInvalidate(r) ==
    /\ req[r].op = "createProperty" /\ req[r].pc = "invalidate"
    /\ cache' = RedisDeletePattern(cache)
    /\ Finish(r, 201, [cacheFailed |-> ~redisUp])
    /\ UNCHANGED <<props, propertiesListed, redisUp, writes, favVars, recVars, users, reminderOps>>

\* the ownership check left out
OwnershipUnchecked(doc, u) == TRUE

\* PropertySchema.methods.isOwnedBy
IsOwnedBy(doc, u) == doc.createdBy = u

\* the request body of updateProperty: any field of the document can be named
Absent == "absent"
NoBody == <<>>
UpdateBodies == [ptype : PropertyTypes, createdBy : Users \cup {Absent}]

\* Object.assign(property, updateData)
ObjectAssign(doc, body) ==
    [doc EXCEPT !.ptype = body.ptype,
                !.createdBy = IF body.createdBy = Absent THEN @ ELSE body.createdBy]

\* updateProperty and deleteProperty: Property.findById, then the ownership check
PropertyFind(r, op, u, p, body) ==
    /\ req[r] = Idle
    /\ users[u].exists
    /\ writes < MaxWrites
    /\ writes' = writes + 1
    /\ LET base == [op |-> op, user |-> u, id |-> p, body |-> body, cacheFailed |-> FALSE,
                    pre |-> [favorites |-> favorites, recs |-> recs]]
       IN IF ~props[p].exists THEN Finish(r, 404, base)
          ELSE IF ~IsOwnedBy(props[p], u) THEN Finish(r, 403, base)
          ELSE Goto(r, "save", base)
    /\ UNCHANGED <<props, propertiesListed, cache, redisUp, favVars, recVars, users, reminderOps>>

UpdatePropertyFind(r, u, p, body) == PropertyFind(r, "updateProperty", u, p, body)
DeletePropertyFind(r, u, p) == PropertyFind(r, "deleteProperty", u, p, NoBody)

\* Object.assign(property, body); property.save(): the modified paths are $set
UpdatePropertySave(r) ==
    /\ req[r].op = "updateProperty" /\ req[r].pc = "save"
    /\ props' = [props EXCEPT ![req[r].id] = ObjectAssign(@, req[r].body)]
    /\ cache' = OutdatedCache(cache)
    /\ req' = [OutdatedReq(req) EXCEPT ![r].pc = "invalidate"]
    /\ UNCHANGED <<propertiesListed, redisUp, writes, favVars, recVars, users, reminderOps>>

\* the document removed from the collection
HardDelete(doc) == NoDoc

\* property.isActive = false
SoftDelete(doc) == [doc EXCEPT !.isActive = FALSE]

\* property.isActive = false; property.save()
DeletePropertySave(r) ==
    /\ req[r].op = "deleteProperty" /\ req[r].pc = "save"
    /\ props' = [props EXCEPT ![req[r].id] = SoftDelete(@)]
    /\ cache' = OutdatedCache(cache)
    /\ req' = [OutdatedReq(req) EXCEPT ![r].pc = "stats"]
    /\ UNCHANGED <<propertiesListed, redisUp, writes, favVars, recVars, users, reminderOps>>

\* User.findByIdAndUpdate(user, { $inc: { 'stats.propertiesListed': -1 } })
DeletePropertyStats(r) ==
    /\ req[r].op = "deleteProperty" /\ req[r].pc = "stats"
    /\ propertiesListed' = [propertiesListed EXCEPT ![req[r].user] = @ - 1]
    /\ Goto(r, "invalidate", <<>>)
    /\ UNCHANGED <<props, cache, redisUp, writes, favVars, recVars, users, reminderOps>>

\* Promise.all([deletePattern(`properties:*`), delete(`property_detail:${id}`)])
WriteInvalidate(r) ==
    /\ req[r].op \in {"updateProperty", "deleteProperty"}
    /\ req[r].pc = "invalidate"
    /\ cache' = RedisDeletePattern(cache)
    /\ Finish(r, 200, [cacheFailed |-> ~redisUp])
    /\ UNCHANGED <<props, propertiesListed, redisUp, writes, favVars, recVars, users, reminderOps>>

\* searchProperties, up to the cache probe: a hit is the response.
SearchPropertiesProbe(r, query) ==
    /\ req[r] = Idle
    /\ LET e == RedisGetObject(SearchKey(query))
           base == [op |-> "searchProperties", query |-> query]
       IN IF e # Miss
          THEN Finish(r, 200, [body |-> e.body, fromCache |-> TRUE] @@ base)
          ELSE Goto(r, "query", base)
    /\ UNCHANGED <<propVars, favVars, recVars, users, reminderOps>>

\* the text search in the store
SearchPropertiesQuery(r) ==
    /\ req[r].op = "searchProperties" /\ req[r].pc = "query"
    /\ Goto(r, "set", [result |-> [hit |-> TRUE,
                                   body |-> SearchResult(props, req[r].query),
                                   stale |-> FALSE]])
    /\ UNCHANGED <<propVars, favVars, recVars, users, reminderOps>>

\* await redisClient.set(cacheKey, ..., CACHE_TTL_SHORT), then the response
SearchPropertiesSet(r) ==
    /\ req[r].op = "searchProperties" /\ req[r].pc = "set"
    /\ IF redisUp
       THEN /\ cache' = [cache EXCEPT ![SearchKey(req[r].query)] = req[r].result]
            /\ Finish(r, 200, [body |-> req[r].result.body, fromCache |-> FALSE])
       ELSE /\ cache' = cache
            /\ Finish(r, 500, <<>>)
    /\ UNCHANGED <<props, propertiesListed, redisUp, writes, favVars, recVars, users, reminderOps>>

SearchStep(r) ==
    \/ \E query \in SearchQueries : SearchPropertiesProbe(r, query)
    \/ SearchPropertiesQuery(r)
    \/ SearchPropertiesSet(r)

DeletePropertyStep(r) ==
    \/ \E u \in Users, p \in PropIds : DeletePropertyFind(r, u, p)
    \/ DeletePropertySave(r)
    \/ DeletePropertyStats(r)
    \/ WriteInvalidate(r)

PropStep(r) ==
    \/ \E q \in Queries : GetPropertiesProbe(r, q)
    \/ GetPropertiesQuery(r)
    \/ GetPropertiesSet(r)
    \/ \E u \in Users, t \in PropertyTypes : CreatePropertySave(r, u, t)
    \/ CreatePropertyStats(r)
    \/ CreatePropertyInvalidate(r)
    \/ \E u \in Users, p \in PropIds, body \in UpdateBodies : UpdatePropertyFind(r, u, p, body)
    \/ UpdatePropertySave(r)
    \/ \E u \in Users, p \in PropIds : DeletePropertyFind(r, u, p)
    \/ DeletePropertySave(r)
    \/ DeletePropertyStats(r)
    \/ WriteInvalidate(r)
    \/ Return(r)

\* --------------------------------------------------------- initial states
InitUsers ==
    /\ propertiesListed = [u \in Users |-> 0]
    /\ favoriteCount = [u \in Users |-> 0]
    /\ recsSent = [u \in Users |-> 0]
    /\ recsReceived = [u \in Users |-> 0]

InitIdle ==
    /\ cache = [k \in ListKeys \cup SearchKeys |-> Miss]
    /\ redisUp = TRUE
    /\ writes = 0
    /\ favorites = {}
    /\ favOps = 0
    /\ favDone = [u \in Users |-> [added |-> 0, removed |-> 0]]
    /\ users = [u \in Users |-> [exists |-> TRUE, firstName |-> "given", role |-> "user"]]
    /\ recs = [i \in RecIds |-> NoDoc]
    /\ recsEnabled = [u \in Users |-> TRUE]
    /\ recOps = 0
    /\ reminderOps = [asked |-> 0, sent |-> [i \in RecIds |-> 0]]
    /\ now = 0
    /\ req = [r \in Procs |-> Idle]

\* a fresh deployment: empty collections, empty cache
Init ==
    /\ InitUsers
    /\ InitIdle
    /\ props = [p \in PropIds |-> NoDoc]

\* property requests, two of them in flight at a time
NextProp == (\E r \in Procs : PropStep(r)) \/ CacheExpire
SpecProp == Init /\ [][NextProp]_vars

\* property requests handled one after the other
NextPropSerial == PropStep("a") \/ CacheExpire
SpecPropSerial == Init /\ [][NextPropSerial]_vars

\* list, search and write requests handled one after the other
NextSearchSerial == PropStep("a") \/ SearchStep("a") \/ CacheExpire
SpecSearchSerial == Init /\ [][NextSearchSerial]_vars

\* property requests one after the other, with Redis outages
NextPropFault == PropStep("a") \/ CacheExpire \/ RedisGoesDown \/ RedisComesUp
SpecPropFault == Init /\ [][NextPropFault]_vars


\* ------------------------------------------------- the property list cache
Answered(r, op) == Done(r) /\ req[r].op = op
ListedIds(body) == {body.properties[i].id : i \in DOMAIN body.properties}
InRequestedPage(p, q) == \E i \in DOMAIN PageOf(props, q) : PageOf(props, q)[i] = p

\* C1: with requests handled one after the other, a getProperties answer
\* contains every stored property that its filter matches and that falls on
\* the requested page, whatever was cached before the property was created.
C1_SequentialFreshness ==
    \A r \in Procs :
        (Answered(r, "getProperties") /\ req[r].status = 200) =>
            \A p \in PropIds :
                (Matches(props[p], req[r].q) /\ InRequestedPage(p, req[r].q))
                    => p \in ListedIds(req[r].body)

\* C2: a getProperties request that starts when every other request has
\* completed is never answered from a cache entry computed from a store
\* state that a completed write has since replaced.
C2_NoStaleEntrySurvives ==
    \A r \in Procs :
        (Answered(r, "getProperties") /\ req[r].status = 200
            /\ req[r].quiet /\ req[r].fromCache) => ~req[r].stale

\* C3: a request that met a failing cache call while the store was healthy
\* is still answered with its success response.
C3_CacheFailureAbsorbed ==
    \A r \in Procs :
        (Done(r) /\ req[r].cacheFailed) => req[r].status \in {200, 201}


\* ---------------------------------------------- FavoriteController handlers
\* a store in which property 1 is listed and property 2 was soft-deleted
InitListed ==
    /\ InitIdle
    /\ props = [p \in PropIds |->
                  IF p = 1
                  THEN [exists |-> TRUE, createdBy |-> "u1", isActive |-> TRUE,
                        ptype |-> "Villa", title |-> Title]
                  ELSE [exists |-> TRUE, createdBy |-> "u2", isActive |-> FALSE,
                        ptype |-> "Plot", title |-> Title]]
    /\ propertiesListed = [u \in Users |-> IF u = "u1" THEN 1 ELSE 0]
    /\ favoriteCount = [u \in Users |-> 0]
    /\ recsSent = [u \in Users |-> 0]
    /\ recsReceived = [u \in Users |-> 0]

FavoritesOf(favs, u, p) == {f \in favs : f.userId = u /\ f.propertyId = p}

\* the existence check left out
FindOneFavoriteSkipped(favs, u, p) == FALSE

\* Favorite.findOne({ userId, propertyId })
FindOneFavorite(favs, u, p) == FavoritesOf(favs, u, p) # {}

\* FavoriteSchema.index({ userId: 1, propertyId: 1 }, { unique: true })
FavoriteIndexAllows(favs, u, p) == FavoritesOf(favs, u, p) = {}

\* FavoriteSchema.post('save'): the hook tests doc.isNew, which the insert
\* has already reset to false when post hooks run.
FavoritePostSave(count, u, isNew) ==
    IF isNew THEN [count EXCEPT ![u] = @ + 1] ELSE count

\* addToFavorites: Property.findById(propertyId)
AddFavoriteFindProperty(r, u, p) ==
    /\ req[r] = Idle
    /\ users[u].exists
    /\ favOps < MaxFavOps
    /\ favOps' = favOps + 1
    /\ LET base == [op |-> "addToFavorites", user |-> u, id |-> p,
                    rowId |-> favOps + 1, refused |-> FALSE,
                    pre |-> [favorites |-> favorites, favoriteCount |-> favoriteCount]]
       IN IF ~props[p].exists \/ ~props[p].isActive
          THEN Finish(r, 404, base)
          ELSE Goto(r, "findExisting", base)
    /\ UNCHANGED <<propVars, favorites, favoriteCount, favDone, recVars, users, reminderOps>>

\* Favorite.findOne({ userId, propertyId }): 409 ALREADY_FAVORITED when found
AddFavoriteFindExisting(r) ==
    /\ req[r].op = "addToFavorites" /\ req[r].pc = "findExisting"
    /\ IF FindOneFavorite(favorites, req[r].user, req[r].id)
       THEN Finish(r, 409, <<>>)
       ELSE Goto(r, "save", <<>>)
    /\ UNCHANGED <<propVars, favVars, recVars, users, reminderOps>>

\* favorite.save(): the insert, refused with a duplicate-key error when the
\* unique index already holds the pair; the handler's catch knows only
\* ValidationError and answers everything else with 500.
AddFavoriteSave(r) ==
    /\ req[r].op = "addToFavorites" /\ req[r].pc = "save"
    /\ IF FavoriteIndexAllows(favorites, req[r].user, req[r].id)
       THEN /\ favorites' = favorites \cup
                   {[id |-> req[r].rowId, userId |-> req[r].user,
                     propertyId |-> req[r].id, notes |-> Absent]}
            /\ favoriteCount' = FavoritePostSave(favoriteCount, req[r].user, FALSE)
            /\ favDone' = [favDone EXCEPT ![req[r].user].added = @ + 1]
            /\ Finish(r, 201, <<>>)
       ELSE /\ UNCHANGED <<favorites, favoriteCount, favDone>>
            /\ Finish(r, 500, [refused |-> TRUE])
    /\ UNCHANGED <<propVars, favOps, recVars, users, reminderOps>>

\* removeFromFavorites: Favorite.findOneAndDelete({ userId, propertyId }), a
\* query that runs no document middleware
RemoveFavorite(r, u, p) ==
    /\ req[r] = Idle
    /\ users[u].exists
    /\ favOps < MaxFavOps
    /\ favOps' = favOps + 1
    /\ LET found == FavoritesOf(favorites, u, p)
           base == [op |-> "removeFromFavorites", user |-> u, id |-> p]
       IN IF found = {}
          THEN /\ favorites' = favorites
               /\ favDone' = favDone
               /\ Finish(r, 404, base)
          ELSE /\ favorites' = favorites \ {CHOOSE f \in found : TRUE}
               /\ favDone' = [favDone EXCEPT ![u].removed = @ + 1]
               /\ Finish(r, 200, base)
    /\ UNCHANGED <<propVars, favoriteCount, recVars, users, reminderOps>>

FavStep(r) ==
    \/ \E u \in Users, p \in PropIds : AddFavoriteFindProperty(r, u, p)
    \/ AddFavoriteFindExisting(r)
    \/ AddFavoriteSave(r)
    \/ \E u \in Users, p \in PropIds : RemoveFavorite(r, u, p)
    \/ Return(r)

\* favorite requests, two of them in flight at a time
NextFav == \E r \in Procs : FavStep(r)
SpecFav == InitListed /\ [][NextFav]_vars

\* favorite requests handled one after the other
NextFavSerial == FavStep("a")
SpecFavSerial == InitListed /\ [][NextFavSerial]_vars

\* C4: with requests handled one after the other, an addToFavorites(u, p)
\* for an active property that finds the pair already favorited is answered
\* 409 and leaves the Favorite rows and the counters as they were, and an
\* accepted one leaves exactly one row for the pair.
C4_SecondAddConflicts ==
    \A r \in Procs :
        (Answered(r, "addToFavorites") /\ req[r].status # 404) =>
            /\ Cardinality(FavoritesOf(favorites, req[r].user, req[r].id)) = 1
            /\ IF FavoritesOf(req[r].pre.favorites, req[r].user, req[r].id) # {}
               THEN /\ req[r].status = 409
                    /\ favorites = req[r].pre.favorites
                    /\ favoriteCount = req[r].pre.favoriteCount
               ELSE req[r].status = 201

C4_Witness ==
    \E r \in Procs :
        /\ Answered(r, "addToFavorites")
        /\ req[r].status = 409
        /\ Cardinality(FavoritesOf(favorites, req[r].user, req[r].id)) = 1

\* C5: an addToFavorites whose insert the unique (userId, propertyId) index
\* refuses is answered with Conflict, not with an internal server error.
C5_RefusedInsertIsConflict ==
    \A r \in Procs :
        (Answered(r, "addToFavorites") /\ req[r].refused) => req[r].status = 409


\* ---------------------------------------------------- Recommendation model
Null == -1
NoUser == "nobody"
Recipients == Users \cup {NoUser}
RecStatuses == {"viewed", "interested", "not_interested", "contacted", "dismissed"}
TickDays == {31}

Triple(d) == <<d.senderId, d.recipientId, d.propertyId>>
RecRows(store, t) == {i \in RecIds : store[i].exists /\ Triple(store[i]) = t}
ActiveRecRows(store, t) == {i \in RecRows(store, t) : store[i].isActive}
FreeRecIds == {i \in RecIds : ~recs[i].exists}
NextRecId ==
    IF FreeRecIds = {} THEN MaxRecs + 1
    ELSE CHOOSE i \in FreeRecIds : \A j \in FreeRecIds : i <= j
SendsInFlight ==
    Cardinality({r \in Procs : req[r].op = "sendRecommendation" /\ ~Done(r)})

\* isExpired(): expiresAt ? expiresAt < new Date() : false
IsExpired(d, t) == IF d.expiresAt # Null THEN d.expiresAt < t ELSE FALSE

\* expiresAt validator, run by save() on every loaded path of the document:
\* !date || date > new Date()
ExpiresAtValid(d, t) == d.expiresAt = Null \/ d.expiresAt > t

\* the duplicate check matching any earlier row, active or not
FindAnyRecommendation(store, t) == RecRows(store, t) # {}

\* Recommendation.findOne({ senderId, recipientId, propertyId, isActive: true })
FindActiveRecommendation(store, t) == ActiveRecRows(store, t) # {}

\* a collection with no unique index
RecommendationIndexMissing(store, t) == TRUE

\* index({ senderId, recipientId, propertyId },
\*       { unique: true, partialFilterExpression: { isActive: true } })
RecommendationIndexAllows(store, t) == ActiveRecRows(store, t) = {}

\* the self-recommendation check left out
SelfCheckSkipped(u, to) == FALSE

\* recipient._id.toString() === req.user._id.toString()
IsSelfRecommendation(u, to) == to = u

\* markAsViewed: if (!this.interactions.viewedAt)
NotYetViewed(d) == d.viewedAt = Null

StampViewedIfAbsent(d, t) == IF d.viewedAt = Null THEN t ELSE d.viewedAt

\* the document methods, applied to the loaded copy at time t
MarkAsViewed(d, t) == [d EXCEPT !.viewedAt = t, !.status = "viewed"]
MarkAsInterested(d, t) ==
    [d EXCEPT !.status = "interested", !.respondedAt = t,
              !.viewedAt = StampViewedIfAbsent(d, t)]
MarkAsNotInterested(d, t) ==
    [d EXCEPT !.status = "not_interested", !.respondedAt = t,
              !.viewedAt = StampViewedIfAbsent(d, t)]
MarkAsContacted(d, t) ==
    [d EXCEPT !.status = "contacted", !.contactedAt = t, !.respondedAt = t,
              !.viewedAt = StampViewedIfAbsent(d, t)]
MarkAsDismissed(d, t) ==
    [d EXCEPT !.status = "dismissed", !.dismissedAt = t, !.isActive = FALSE]

\* the switch of updateRecommendationStatus
ApplyStatus(d, st, t) ==
    CASE st = "viewed" -> MarkAsViewed(d, t)
      [] st = "interested" -> MarkAsInterested(d, t)
      [] st = "not_interested" -> MarkAsNotInterested(d, t)
      [] st = "contacted" -> MarkAsContacted(d, t)
      [] st = "dismissed" -> MarkAsDismissed(d, t)

\* document.save() of a loaded document: $set of the paths the method changed
\* (a fresh Date always counts as changed), on whatever the row now holds
Timestamps == {"viewedAt", "respondedAt", "contactedAt", "dismissedAt"}
ModifiedPaths(old, new) ==
    {f \in {"status", "isActive"} : new[f] # old[f]}
        \cup {f \in Timestamps : new[f] # old[f] \/ (new[f] # Null /\ f # "viewedAt")}
SaveRecommendation(store, i, old, new) ==
    [store EXCEPT ![i] =
        [f \in DOMAIN @ |-> IF f \in ModifiedPaths(old, new) THEN new[f] ELSE @[f]]]

\* ---------------------------------------- RecommendationController handlers
\* sendRecommendation: User.findOne({ email, isActive, isVerified }), the
\* self check, the recipient's preference, then Property.findById; nothing
\* these reads look at changes while recommendation requests run.
SendRecommendationLookup(r, u, to, p) ==
    /\ req[r] = Idle
    /\ users[u].exists
    /\ recOps < MaxRecOps
    /\ Cardinality(FreeRecIds) > SendsInFlight
    /\ recOps' = recOps + 1
    /\ LET base == [op |-> "sendRecommendation", user |-> u, to |-> to, id |-> p,
                    pre |-> recs, startedAt |-> now, refused |-> FALSE]
       IN IF to = NoUser \/ ~users[to].exists THEN Finish(r, 404, base)
          ELSE IF IsSelfRecommendation(u, to) THEN Finish(r, 400, base)
          ELSE IF ~recsEnabled[to] THEN Finish(r, 403, base)
          ELSE IF ~props[p].exists \/ ~props[p].isActive THEN Finish(r, 404, base)
          ELSE Goto(r, "findExisting", base)
    /\ UNCHANGED <<propVars, favVars, recs, recsSent, recsReceived, recsEnabled, now, users, reminderOps>>

ReqTriple(r) == <<req[r].user, req[r].to, req[r].id>>

\* the duplicate check: 409 DUPLICATE_RECOMMENDATION when an active row exists
SendRecommendationFindExisting(r) ==
    /\ req[r].op = "sendRecommendation" /\ req[r].pc = "findExisting"
    /\ IF FindActiveRecommendation(recs, ReqTriple(r))
       THEN Finish(r, 409, <<>>)
       ELSE Goto(r, "preSave", <<>>)
    /\ UNCHANGED <<propVars, favVars, recVars, users, reminderOps>>

\* recommendation.save(), RecommendationSchema.pre('save'): the default
\* expiry and the two counter increments, before the insert is attempted
SendRecommendationPreSave(r) ==
    /\ req[r].op = "sendRecommendation" /\ req[r].pc = "preSave"
    /\ recsSent' = [recsSent EXCEPT ![req[r].user] = @ + 1]
    /\ recsReceived' = [recsReceived EXCEPT ![req[r].to] = @ + 1]
    /\ Goto(r, "insert", [expiresAt |-> now + EXPIRY_DAYS, sentAt |-> now])
    /\ UNCHANGED <<propVars, favVars, recs, recsEnabled, recOps, now, users, reminderOps>>

\* recommendation.save(), the insert, and on success the deletePattern of
\* "recommendations:*"; a duplicate-key error from the partial unique index
\* reaches the handler's catch, which answers 500
SendRecommendationInsert(r) ==
    /\ req[r].op = "sendRecommendation" /\ req[r].pc = "insert"
    /\ IF RecommendationIndexAllows(recs, ReqTriple(r))
       THEN /\ recs' = [recs EXCEPT ![NextRecId] =
                   [exists |-> TRUE, senderId |-> req[r].user,
                    recipientId |-> req[r].to, propertyId |-> req[r].id,
                    status |-> "pending", isActive |-> TRUE,
                    expiresAt |-> req[r].expiresAt, sentAt |-> req[r].sentAt,
                    viewedAt |-> Null, respondedAt |-> Null,
                    contactedAt |-> Null, dismissedAt |-> Null,
                    reminderSentAt |-> Null, reminderCount |-> 0,
                    allowReminders |-> TRUE]]
            /\ cache' = RedisDeleteRecommendations(cache)
            /\ Finish(r, 201, <<>>)
       ELSE /\ UNCHANGED <<recs, cache>>
            /\ Finish(r, 500, [refused |-> TRUE])
    /\ UNCHANGED <<props, propertiesListed, redisUp, writes, favVars, recsSent,
                   recsReceived, recsEnabled, recOps, now, users, reminderOps>>

\* updateRecommendationStatus: Recommendation.findOne({ _id, recipientId, isActive: true })
UpdateStatusFind(r, u, i, st) ==
    /\ req[r] = Idle
    /\ users[u].exists
    /\ recOps < MaxRecOps
    /\ recOps' = recOps + 1
    /\ LET base == [op |-> "updateRecommendationStatus", user |-> u, id |-> i,
                    newStatus |-> st, found |-> recs[i]]
       IN IF recs[i].exists /\ recs[i].recipientId = u /\ recs[i].isActive
          THEN Goto(r, "mark", base)
          ELSE Finish(r, 404, base)
    /\ UNCHANGED <<propVars, favVars, recs, recsSent, recsReceived, recsEnabled, now, users, reminderOps>>

\* the method chosen by the switch and its save(), then the deletePattern of
\* "recommendations:*"; only markAsViewed saves with validateBeforeSave:
\* false, and only when viewedAt is still unset
UpdateStatusMark(r) ==
    /\ req[r].op = "updateRecommendationStatus" /\ req[r].pc = "mark"
    /\ LET d == req[r].found
           st == req[r].newStatus
       IN IF st = "viewed"
          THEN /\ recs' = IF NotYetViewed(d)
                          THEN SaveRecommendation(recs, req[r].id, d, MarkAsViewed(d, now))
                          ELSE recs
               /\ cache' = RedisDeleteRecommendations(cache)
               /\ Finish(r, 200, <<>>)
          ELSE IF ExpiresAtValid(d, now)
          THEN /\ recs' = SaveRecommendation(recs, req[r].id, d, ApplyStatus(d, st, now))
               /\ cache' = RedisDeleteRecommendations(cache)
               /\ Finish(r, 200, <<>>)
          ELSE /\ UNCHANGED <<recs, cache>>
               /\ Finish(r, 500, <<>>)
    /\ UNCHANGED <<props, propertiesListed, redisUp, writes, favVars, recsSent,
                   recsReceived, recsEnabled, recOps, now, users, reminderOps>>

\* getRecommendationById: findOne({ _id, $or: [sender, recipient], isActive: true })
GetRecommendationFind(r, u, i) ==
    /\ req[r] = Idle
    /\ users[u].exists
    /\ recOps < MaxRecOps
    /\ recOps' = recOps + 1
    /\ LET base == [op |-> "getRecommendationById", user |-> u, id |-> i,
                    found |-> recs[i]]
       IN IF recs[i].exists /\ u \in {recs[i].senderId, recs[i].recipientId}
             /\ recs[i].isActive
          THEN IF recs[i].recipientId = u /\ recs[i].status = "pending"
               THEN Goto(r, "view", base)
               ELSE Finish(r, 200, base)
          ELSE Finish(r, 404, base)
    /\ UNCHANGED <<propVars, favVars, recs, recsSent, recsReceived, recsEnabled, now, users, reminderOps>>

\* the recipient's first look: recommendation.markAsViewed()
GetRecommendationView(r) ==
    /\ req[r].op = "getRecommendationById" /\ req[r].pc = "view"
    /\ recs' = IF NotYetViewed(req[r].found)
               THEN SaveRecommendation(recs, req[r].id, req[r].found,
                                       MarkAsViewed(req[r].found, now))
               ELSE recs
    /\ Finish(r, 200, <<>>)
    /\ UNCHANGED <<propVars, favVars, recsSent, recsReceived, recsEnabled, recOps, now, users, reminderOps>>

\* time passes
Tick ==
    /\ \E d \in TickDays :
          /\ now + d <= MaxDay
          /\ now' = now + d
    /\ UNCHANGED <<propVars, favVars, recs, recsSent, recsReceived, recsEnabled,
                   recOps, req, users, reminderOps>>

RecStep(r) ==
    \/ \E u \in Users, to \in Recipients, p \in PropIds : SendRecommendationLookup(r, u, to, p)
    \/ SendRecommendationFindExisting(r)
    \/ SendRecommendationPreSave(r)
    \/ SendRecommendationInsert(r)
    \/ \E u \in Users, i \in RecIds, st \in RecStatuses : UpdateStatusFind(r, u, i, st)
    \/ UpdateStatusMark(r)
    \/ \E u \in Users, i \in RecIds : GetRecommendationFind(r, u, i)
    \/ GetRecommendationView(r)
    \/ Return(r)

\* recommendation requests, two of them in flight at a time
NextRec == (\E r \in Procs : RecStep(r)) \/ Tick
SpecRec == InitListed /\ [][NextRec]_vars

\* recommendation requests handled one after the other
NextRecSerial == RecStep("a") \/ Tick
SpecRecSerial == InitListed /\ [][NextRecSerial]_vars


\* --------------------------------------------------- recommendation claims
\* a sendRecommendation that got as far as its duplicate check
SendDecided(r) ==
    Answered(r, "sendRecommendation") /\ req[r].status \notin {400, 403, 404}

\* C6: with requests handled one after the other, a sendRecommendation for a
\* triple that has an active row is answered 409 and stores nothing; one
\* whose triple has no active row (none at all, or only dismissed ones) is
\* answered 201 and adds one row for the triple.
C6_ConflictWhileActive ==
    \A r \in Procs :
        SendDecided(r) =>
            IF ActiveRecRows(req[r].pre, ReqTriple(r)) # {}
            THEN req[r].status = 409 /\ recs = req[r].pre
            ELSE /\ req[r].status = 201
                 /\ Cardinality(RecRows(recs, ReqTriple(r)))
                        = Cardinality(RecRows(req[r].pre, ReqTriple(r))) + 1

C6_Witness ==
    \E r \in Procs :
        /\ SendDecided(r)
        /\ req[r].status = 201
        /\ \E i \in RecRows(req[r].pre, ReqTriple(r)) :
              req[r].pre[i].status = "dismissed"

\* C7: under any interleaving, no two active Recommendation rows share their
\* (senderId, recipientId, propertyId).
C7_OneActivePerTriple ==
    \A i, j \in RecIds :
        (i # j /\ recs[i].exists /\ recs[j].exists
             /\ recs[i].isActive /\ recs[j].isActive)
            => Triple(recs[i]) # Triple(recs[j])

C7_Witness ==
    \E r \in Procs : Answered(r, "sendRecommendation") /\ req[r].refused

\* C8: a sendRecommendation for a triple whose only active rows had expired
\* when the request started is accepted.
C8_ExpiredAllowsResend ==
    \A r \in Procs :
        (SendDecided(r)
            /\ ActiveRecRows(req[r].pre, ReqTriple(r)) # {}
            /\ \A i \in ActiveRecRows(req[r].pre, ReqTriple(r)) :
                  IsExpired(req[r].pre[i], req[r].startedAt))
            => req[r].status = 201

\* C9: no stored Recommendation has its sender as recipient, and every send
\* addressed to the requesting user is answered 400.
C9_NoSelfRecommendation ==
    /\ \A i \in RecIds : recs[i].exists => recs[i].senderId # recs[i].recipientId
    /\ \A r \in Procs :
          (Answered(r, "sendRecommendation") /\ req[r].to = req[r].user)
              => req[r].status = 400

C9_Witness ==
    \E r \in Procs :
        /\ Answered(r, "sendRecommendation")
        /\ req[r].to = req[r].user
        /\ req[r].status = 400

\* C10: no step of any request takes a status back to pending, takes
\* interested, not_interested or contacted back to viewed, or changes the
\* status of a dismissed recommendation or reactivates it.
StatusStepForward(i) ==
    /\ recs[i].status # "pending" => recs'[i].status # "pending"
    /\ recs[i].status \in {"interested", "not_interested", "contacted"}
           => recs'[i].status # "viewed"
    /\ recs[i].status = "dismissed"
           => recs'[i].status = "dismissed" /\ ~recs'[i].isActive

C10_StatusNeverMovesBackward ==
    [][\A i \in RecIds : recs[i].exists => StatusStepForward(i)]_vars

\* the defined progression: pending -> viewed -> responded, and dismissal
\* from pending or viewed
DefinedTransitions ==
    {<<"pending", "viewed">>, <<"viewed", "interested">>,
     <<"viewed", "not_interested">>, <<"viewed", "contacted">>,
     <<"pending", "dismissed">>, <<"viewed", "dismissed">>}

\* C11: every change of a recommendation's status is one of the defined
\* transitions; in particular an interested, not_interested or contacted
\* recommendation is never moved to dismissed or to another responded status.
C11_OnlyDefinedTransitions ==
    [][\A i \in RecIds :
          (recs[i].exists /\ recs'[i].exists /\ recs'[i].status # recs[i].status)
              => <<recs[i].status, recs'[i].status>> \in DefinedTransitions]_vars

\* a day passes
NextDay ==
    /\ now < MaxDailySteps
    /\ now' = now + 1
    /\ UNCHANGED <<propVars, favVars, recs, recsSent, recsReceived, recsEnabled,
                   recOps, req, users, reminderOps>>

\* recommendation requests handled one after the other, on different days
NextRecDaily == RecStep("a") \/ NextDay
SpecRecDaily == InitListed /\ [][NextRecDaily]_vars

\* C12: once viewedAt, respondedAt, contactedAt or dismissedAt of a
\* recommendation has been set, no later step changes its value.
C12_TimestampsStampedOnce ==
    [][\A i \in RecIds : \A f \in Timestamps :
          (recs[i].exists /\ recs'[i].exists /\ recs[i][f] # Null)
              => recs'[i][f] = recs[i][f]]_vars

\* C13: for every user, stats.favoriteCount equals the number of successful
\* addToFavorites requests minus the number of successful
\* removeFromFavorites requests of that user.
C13_FavoriteCountTracksRows ==
    \A u \in Users :
        favoriteCount[u] = favDone[u].added - favDone[u].removed
\* ------------------------------------------------------------ User deletion
\* user.deleteOne(): UserSchema.pre('deleteOne') removes the user's
\* properties, favorites and recommendations, then the document is removed.
DeleteUserProperties(r, u) ==
    /\ req[r] = Idle
    /\ users[u].exists
    /\ props' = [p \in PropIds |->
                    IF props[p].exists /\ props[p].createdBy = u THEN NoDoc ELSE props[p]]
    /\ req' = [req EXCEPT ![r] = [op |-> "deleteUser", pc |-> "favorites", user |-> u]]
    /\ UNCHANGED <<propertiesListed, cache, redisUp, writes, favVars, recVars, users, reminderOps>>

\* Favorite.deleteMany({ userId })
DeleteUserFavorites(r) ==
    /\ req[r].op = "deleteUser" /\ req[r].pc = "favorites"
    /\ favorites' = {f \in favorites : f.userId # req[r].user}
    /\ Goto(r, "recommendations", <<>>)
    /\ UNCHANGED <<propVars, favoriteCount, favOps, favDone, recVars, users, reminderOps>>

\* a filter that forgets the received recommendations
SentByUser(d, u) == d.senderId = u

\* { $or: [{ senderId: this._id }, { recipientId: this._id }] }
SentOrReceivedByUser(d, u) == u \in {d.senderId, d.recipientId}

\* Recommendation.deleteMany({ $or: [{ senderId }, { recipientId }] })
DeleteUserRecommendations(r) ==
    /\ req[r].op = "deleteUser" /\ req[r].pc = "recommendations"
    /\ recs' = [i \in RecIds |->
                   IF recs[i].exists /\ SentOrReceivedByUser(recs[i], req[r].user)
                   THEN NoDoc ELSE recs[i]]
    /\ Goto(r, "remove", <<>>)
    /\ UNCHANGED <<propVars, favVars, recsSent, recsReceived, recsEnabled, recOps, now, users, reminderOps>>

\* the hook called next(): the User document itself is deleted
DeleteUserRemove(r) ==
    /\ req[r].op = "deleteUser" /\ req[r].pc = "remove"
    /\ users' = [users EXCEPT ![req[r].user] = NoDoc]
    /\ Finish(r, 200, <<>>)
    /\ UNCHANGED <<propVars, favVars, recVars, reminderOps>>

UserStep(r) ==
    \/ \E u \in Users : DeleteUserProperties(r, u)
    \/ DeleteUserFavorites(r)
    \/ DeleteUserRecommendations(r)
    \/ DeleteUserRemove(r)

\* favorite, recommendation and user-deletion requests, one after the other
NextUserSerial == FavStep("a") \/ RecStep("a") \/ UserStep("a")
SpecUserSerial == InitListed /\ [][NextUserSerial]_vars

RecsSentBy(u) == Cardinality({i \in RecIds : recs[i].exists /\ recs[i].senderId = u})
RecsReceivedBy(u) == Cardinality({i \in RecIds : recs[i].exists /\ recs[i].recipientId = u})
Quiescent == \A r \in Procs : req[r].pc \in {"idle", "done"}

\* C14: whenever no request is in flight, every remaining user's
\* recommendationsSent equals the number of stored rows the user sent and
\* recommendationsReceived the number of stored rows the user received.
C14_CountersMatchRows ==
    Quiescent =>
        \A u \in Users :
            users[u].exists =>
                /\ recsSent[u] = RecsSentBy(u)
                /\ recsReceived[u] = RecsReceivedBy(u)

\* C15: once a user deletion has completed, the store holds no Property
\* created by the user, no Favorite of the user and no Recommendation sent
\* or received by the user.
C15_DeleteUserCascades ==
    \A r \in Procs :
        (Answered(r, "deleteUser") /\ req[r].status = 200) =>
            LET u == req[r].user
            IN /\ \A p \in PropIds : props[p].exists => props[p].createdBy # u
               /\ \A f \in favorites : f.userId # u
               /\ \A i \in RecIds :
                     recs[i].exists => u \notin {recs[i].senderId, recs[i].recipientId}

C15_Witness ==
    \E r \in Procs :
        /\ Answered(r, "deleteUser") /\ req[r].status = 200
        /\ ~users[req[r].user].exists
        /\ favDone[req[r].user].added > favDone[req[r].user].removed
        /\ recsReceived[req[r].user] > 0

\* C16: no list or search response contains a property that a completed
\* deleteProperty has deactivated, whatever was cached before the deletion.
C16_DeletedPropertyNotServed ==
    \A r \in Procs :
        ((Answered(r, "getProperties") \/ Answered(r, "searchProperties"))
            /\ req[r].status = 200)
            => \A p \in ListedIds(req[r].body) : props[p].exists /\ props[p].isActive

\* C17: an updateProperty or deleteProperty request by a user who does not
\* own the stored property is answered 403 at once and changes no property,
\* counter or cache entry; for an absent property the answer is 404.
C17_NonOwnerForbidden ==
    [][\A r \in Procs :
          (req[r] = Idle /\ req'[r].op \in {"updateProperty", "deleteProperty"})
              => /\ (props[req'[r].id].exists
                        /\ props[req'[r].id].createdBy # req'[r].user)
                      => /\ req'[r].pc = "done" /\ req'[r].status = 403
                         /\ props' = props
                         /\ propertiesListed' = propertiesListed
                         /\ cache' = cache
                 /\ ~props[req'[r].id].exists
                      => req'[r].pc = "done" /\ req'[r].status = 404]_vars

C17_Witness ==
    \E r \in Procs :
        /\ Answered(r, "updateProperty")
        /\ req[r].status = 403
        /\ props[req[r].id].exists
        /\ props[req[r].id].createdBy # req[r].user

\* C18: no step changes the createdBy of a stored property.
C18_CreatedByImmutable ==
    [][\A p \in PropIds :
          (props[p].exists /\ props'[p].exists)
              => props'[p].createdBy = props[p].createdBy]_vars

AddFavoriteStep(r) ==
    \/ \E u \in Users, p \in PropIds : AddFavoriteFindProperty(r, u, p)
    \/ AddFavoriteFindExisting(r)
    \/ AddFavoriteSave(r)

SendRecommendationStep(r) ==
    \/ \E u \in Users, to \in Recipients, p \in PropIds : SendRecommendationLookup(r, u, to, p)
    \/ SendRecommendationFindExisting(r)
    \/ SendRecommendationPreSave(r)
    \/ SendRecommendationInsert(r)

\* addToFavorites, sendRecommendation and deleteProperty requests, one after
\* the other
NextDependentsSerial ==
    \/ AddFavoriteStep("a")
    \/ SendRecommendationStep("a")
    \/ DeletePropertyStep("a")
    \/ Return("a")
SpecDependentsSerial == InitListed /\ [][NextDependentsSerial]_vars

\* C19: after a successful deleteProperty the Property row is still stored,
\* with isActive = false, and the Favorite and Recommendation rows are what
\* they were when the request started.
C19_SoftDeleteKeepsDependents ==
    \A r \in Procs :
        (Answered(r, "deleteProperty") /\ req[r].status = 200) =>
            /\ props[req[r].id].exists
            /\ ~props[req[r].id].isActive
            /\ favorites = req[r].pre.favorites
            /\ recs = req[r].pre.recs

C19_Witness ==
    \E r \in Procs :
        /\ Answered(r, "deleteProperty") /\ req[r].status = 200
        /\ \E f \in favorites : f.propertyId = req[r].id
        /\ \E i \in RecIds : recs[i].exists /\ recs[i].propertyId = req[r].id

\* ------------------------------------------------- field-level allow lists
\* the allow-list test passing every body
AllowlistIgnored(updates, allowed) == TRUE

\* updates.every(update => allowedUpdates.includes(update))
IsValidOperation(updates, allowed) == updates \subseteq allowed

\* Object.keys(req.body)
ObjectKeys(body) == {f \in DOMAIN body : body[f] # Absent}

\* updates.forEach(update => { doc[update] = body[update] })
ApplyUpdates(doc, body) ==
    [f \in DOMAIN doc |-> IF f \in ObjectKeys(body) THEN body[f] ELSE doc[f]]

FavoriteAllowedUpdates ==
    {"notes", "tags", "favoriteType", "priority", "reminderDate", "isNotificationEnabled"}
ProfileAllowedUpdates == {"firstName", "lastName", "phone", "avatar", "preferences"}

\* request bodies: one allowed field and one that is not, each named or not
FavoriteBodies == [notes : {Absent, "edited"}, userId : {Absent} \cup Users]
ProfileBodies == [firstName : {Absent, "edited"}, role : {Absent, "admin"}]
FavoriteIds == 1..MaxFavOps

\* updateFavorite: Favorite.findOne({ _id, userId }), then the allow-list test
UpdateFavoriteFind(r, u, fid, body) ==
    /\ req[r] = Idle
    /\ users[u].exists
    /\ LET found == {f \in favorites : f.id = fid /\ f.userId = u}
           base == [op |-> "updateFavorite", user |-> u, id |-> fid, body |-> body,
                    found |-> found, pre |-> favorites]
       IN IF found = {} THEN Finish(r, 404, [error |-> "FAVORITE_NOT_FOUND"] @@ base)
          ELSE IF ~IsValidOperation(ObjectKeys(body), FavoriteAllowedUpdates)
          THEN Finish(r, 400, [error |-> "INVALID_UPDATES"] @@ base)
          ELSE Goto(r, "save", base)
    /\ UNCHANGED <<propVars, favVars, recVars, users, reminderOps>>

\* the updates applied to the loaded document, favorite.save(), the response
UpdateFavoriteSave(r) ==
    /\ req[r].op = "updateFavorite" /\ req[r].pc = "save"
    /\ favorites' = {IF f.id = req[r].id THEN ApplyUpdates(f, req[r].body) ELSE f :
                        f \in favorites}
    /\ Finish(r, 200, [error |-> "none"])
    /\ UNCHANGED <<propVars, favoriteCount, favOps, favDone, recVars, users, reminderOps>>

\* updateProfile: the allow-list test, then User.findById(req.user._id)
UpdateProfileCheck(r, u, body) ==
    /\ req[r] = Idle
    /\ users[u].exists
    /\ LET base == [op |-> "updateProfile", user |-> u, body |-> body, pre |-> users]
       IN IF ~IsValidOperation(ObjectKeys(body), ProfileAllowedUpdates)
          THEN Finish(r, 400, [error |-> "INVALID_UPDATES"] @@ base)
          ELSE Goto(r, "save", base)
    /\ UNCHANGED <<propVars, favVars, recVars, users, reminderOps>>

\* the updates applied to the loaded user, user.save(), then the session
\* cache is rewritten with redisClient.set, which rethrows
UpdateProfileSave(r) ==
    /\ req[r].op = "updateProfile" /\ req[r].pc = "save"
    /\ users' = [users EXCEPT ![req[r].user] = ApplyUpdates(@, req[r].body)]
    /\ IF redisUp
       THEN Finish(r, 200, [error |-> "none"])
       ELSE Finish(r, 500, [error |-> "INTERNAL_SERVER_ERROR"])
    /\ UNCHANGED <<propVars, favVars, recVars, reminderOps>>

UpdateStep(r) ==
    \/ \E u \in Users, fid \in FavoriteIds, body \in FavoriteBodies :
          UpdateFavoriteFind(r, u, fid, body)
    \/ UpdateFavoriteSave(r)
    \/ \E u \in Users, body \in ProfileBodies : UpdateProfileCheck(r, u, body)
    \/ UpdateProfileSave(r)

\* addToFavorites, updateFavorite and updateProfile requests, one after the
\* other
NextUpdateSerial == AddFavoriteStep("a") \/ UpdateStep("a") \/ Return("a")
SpecUpdateSerial == InitListed /\ [][NextUpdateSerial]_vars

ReceivedKey(u, t) == [ns |-> "recommendations", user |-> u, at |-> t]
ReceivedKeys == {ReceivedKey(u, t) : u \in Users, t \in 0..MaxDay}

\* find({ recipientId, isActive: true, $or: [no expiresAt, expiresAt > t] }),
\* newest first, without the rows whose property is no longer active
ReceivedList(store, listed, u, t) ==
    LET found == SortDesc({i \in RecIds :
                     /\ store[i].exists
                     /\ store[i].recipientId = u
                     /\ store[i].isActive
                     /\ (store[i].expiresAt = Null \/ store[i].expiresAt > t)
                     /\ listed[store[i].propertyId].exists
                     /\ listed[store[i].propertyId].isActive})
    IN [recommendations |-> [j \in 1..Len(found) |-> [id |-> found[j]] @@ store[found[j]]]]

\* getReceivedRecommendations, up to the cache probe: a hit is the response
GetReceivedProbe(r, u) ==
    /\ req[r] = Idle
    /\ users[u].exists
    /\ recOps < MaxRecOps
    /\ recOps' = recOps + 1
    /\ LET e == RedisGetObject(ReceivedKey(u, now))
           base == [op |-> "getReceivedRecommendations", user |-> u, at |-> now]
       IN IF e # Miss
          THEN Finish(r, 200, [body |-> e.body, fromCache |-> TRUE] @@ base)
          ELSE Goto(r, "query", base)
    /\ UNCHANGED <<propVars, favVars, recs, recsSent, recsReceived, recsEnabled, now, users, reminderOps>>

\* the store round trips
GetReceivedQuery(r) ==
    /\ req[r].op = "getReceivedRecommendations" /\ req[r].pc = "query"
    /\ Goto(r, "set", [result |-> [hit |-> TRUE, stale |-> FALSE,
                                   body |-> ReceivedList(recs, props, req[r].user,
                                                         req[r].at)]])
    /\ UNCHANGED <<propVars, favVars, recVars, users, reminderOps>>

\* await redisClient.set(...), which rethrows a rejected command
GetReceivedSet(r) ==
    /\ req[r].op = "getReceivedRecommendations" /\ req[r].pc = "set"
    /\ IF redisUp
       THEN /\ cache' = [cache EXCEPT ![ReceivedKey(req[r].user, req[r].at)] = req[r].result]
            /\ Finish(r, 200, [body |-> req[r].result.body, fromCache |-> FALSE])
       ELSE /\ cache' = cache
            /\ Finish(r, 500, <<>>)
    /\ UNCHANGED <<props, propertiesListed, redisUp, writes, favVars, recVars, users, reminderOps>>

GetReceivedStep(r) ==
    \/ \E u \in Users : GetReceivedProbe(r, u)
    \/ GetReceivedQuery(r)
    \/ GetReceivedSet(r)

\* ---------------------------------------------------------------- reminders
MaxReminderOps == 4    \* sendReminder requests accepted in one behaviour
MAX_REMINDERS == 3
REMINDER_GAP_DAYS == 3
ReminderDays == {REMINDER_GAP_DAYS, EXPIRY_DAYS + 1}

\* canSendReminder() without the limit on the number of reminders
CanSendReminderUncapped(d, t) ==
    IF ~d.allowReminders \/ d.status # "pending" \/ IsExpired(d, t) THEN FALSE
    ELSE IF d.reminderSentAt # Null /\ d.reminderSentAt > t - REMINDER_GAP_DAYS THEN FALSE
    ELSE TRUE

\* canSendReminder()
CanSendReminder(d, t) ==
    IF ~d.allowReminders \/ d.status # "pending" \/ IsExpired(d, t) THEN FALSE
    ELSE IF d.reminderCount >= MAX_REMINDERS THEN FALSE
    ELSE IF d.reminderSentAt # Null /\ d.reminderSentAt > t - REMINDER_GAP_DAYS THEN FALSE
    ELSE TRUE

\* sendReminder: Recommendation.findOne({ _id, senderId, status: 'pending',
\* isActive: true })
SendReminderFind(r, u, i) ==
    /\ req[r] = Idle
    /\ users[u].exists
    /\ reminderOps.asked < MaxReminderOps
    /\ reminderOps' = [reminderOps EXCEPT !.asked = @ + 1]
    /\ LET base == [op |-> "sendReminder", user |-> u, id |-> i,
                    found |-> recs[i], pre |-> recs]
       IN IF recs[i].exists /\ recs[i].senderId = u
             /\ recs[i].status = "pending" /\ recs[i].isActive
          THEN Goto(r, "remind", base)
          ELSE Finish(r, 404, base)
    /\ UNCHANGED <<propVars, favVars, recVars, users>>

\* recommendation.sendReminder() on the loaded copy: canSendReminder(), then
\* the two fields are set and saved with validateBeforeSave: false; a save
\* that finds no row throws, and the method's catch returns false
SendReminderSave(r) ==
    /\ req[r].op = "sendReminder" /\ req[r].pc = "remind"
    /\ LET d == req[r].found
           i == req[r].id
       IN IF CanSendReminder(d, now) /\ recs[i].exists
          THEN /\ recs' = [recs EXCEPT ![i].reminderSentAt = now,
                                       ![i].reminderCount = d.reminderCount + 1]
               /\ reminderOps' = [reminderOps EXCEPT !.sent[i] = @ + 1]
               /\ Finish(r, 200, [calledAt |-> now])
          ELSE /\ UNCHANGED <<recs, reminderOps>>
               /\ Finish(r, 400, [calledAt |-> now])
    /\ UNCHANGED <<propVars, favVars, recsSent, recsReceived, recsEnabled, recOps, now, users>>

SendReminderStep(r) ==
    \/ \E u \in Users, i \in RecIds : SendReminderFind(r, u, i)
    \/ SendReminderSave(r)

\* the reminder interval, or more than the lifetime of a recommendation, passes
DaysPass ==
    /\ \E d \in ReminderDays :
          /\ now + d <= MaxDay
          /\ now' = now + d
    /\ UNCHANGED <<propVars, favVars, recs, recsSent, recsReceived, recsEnabled,
                   recOps, req, users, reminderOps>>

\* the store of InitListed on the day u1 has recommended property 1 to u2;
\* requests are counted from here
InitRecommended ==
    /\ props = [p \in PropIds |->
                  IF p = 1
                  THEN [exists |-> TRUE, createdBy |-> "u1", isActive |-> TRUE,
                        ptype |-> "Villa", title |-> Title]
                  ELSE [exists |-> TRUE, createdBy |-> "u2", isActive |-> FALSE,
                        ptype |-> "Plot", title |-> Title]]
    /\ propertiesListed = [u \in Users |-> IF u = "u1" THEN 1 ELSE 0]
    /\ cache = [k \in ListKeys \cup SearchKeys \cup ReceivedKeys |-> Miss]
    /\ redisUp = TRUE
    /\ writes = 0
    /\ favorites = {}
    /\ favoriteCount = [u \in Users |-> 0]
    /\ favOps = 0
    /\ favDone = [u \in Users |-> [added |-> 0, removed |-> 0]]
    /\ users = [u \in Users |-> [exists |-> TRUE, firstName |-> "given", role |-> "user"]]
    /\ recs = [i \in RecIds |->
                 IF i = 1
                 THEN [exists |-> TRUE, senderId |-> "u1", recipientId |-> "u2",
                       propertyId |-> 1, status |-> "pending", isActive |-> TRUE,
                       expiresAt |-> EXPIRY_DAYS, sentAt |-> 0,
                       viewedAt |-> Null, respondedAt |-> Null,
                       contactedAt |-> Null, dismissedAt |-> Null,
                       reminderSentAt |-> Null, reminderCount |-> 0,
                       allowReminders |-> TRUE]
                 ELSE NoDoc]
    /\ recsSent = [u \in Users |-> IF u = "u1" THEN 1 ELSE 0]
    /\ recsReceived = [u \in Users |-> IF u = "u2" THEN 1 ELSE 0]
    /\ recsEnabled = [u \in Users |-> TRUE]
    /\ recOps = 0
    /\ reminderOps = [asked |-> 0, sent |-> [i \in RecIds |-> 0]]
    /\ now = 0
    /\ req = [r \in Procs |-> Idle]

\* reminders handled one after the other
NextReminderSerial == SendReminderStep("a") \/ Return("a") \/ DaysPass
SpecReminderSerial == InitRecommended /\ [][NextReminderSerial]_vars

\* reminders, two requests in flight at a time
NextReminder == (\E r \in Procs : SendReminderStep(r) \/ Return(r)) \/ DaysPass
SpecReminder == InitRecommended /\ [][NextReminder]_vars

\* the conditions under which a reminder may go out for document d at time t
ReminderDue(d, t) ==
    /\ d.allowReminders
    /\ d.status = "pending"
    /\ ~(d.expiresAt # Null /\ d.expiresAt < t)
    /\ d.reminderCount < 3
    /\ (d.reminderSentAt = Null \/ d.reminderSentAt <= t - 3)

\* C21: a sendReminder call on a loaded recommendation succeeds, stamping
\* reminderSentAt and raising reminderCount by one, exactly when reminders are
\* allowed, the status is pending, the recommendation has not expired, fewer
\* than 3 reminders were sent and none in the last 3 days; otherwise it
\* returns false and the stored recommendations are unchanged.
C21_ReminderExactlyWhenDue ==
    \A r \in Procs :
        (Answered(r, "sendReminder") /\ req[r].status # 404) =>
            LET d == req[r].found
                i == req[r].id
            IN IF ReminderDue(d, req[r].calledAt)
               THEN /\ req[r].status = 200
                    /\ recs[i].reminderSentAt = req[r].calledAt
                    /\ recs[i].reminderCount = d.reminderCount + 1
               ELSE /\ req[r].status = 400
                    /\ recs = req[r].pre

C21_Witness ==
    \E r \in Procs :
        /\ Answered(r, "sendReminder")
        /\ req[r].status = 400
        /\ req[r].found.reminderCount = 3
        /\ ~IsExpired(req[r].found, req[r].calledAt)
        /\ req[r].found.reminderSentAt <= req[r].calledAt - 3

\* C29: for every recommendation, the number of sendReminder calls that
\* reported success never exceeds 3, whatever the interleaving of requests.
C29_AtMostThreeReminders ==
    \A i \in RecIds : reminderOps.sent[i] <= 3


\* --------------------------------------------------------------- pagination
MaxTotal == 25         \* rows matching the filter of a list request

\* req.query.page and req.query.limit, spelled as decimal integers, which
\* parseInt reads back as the same integers
PageInputs == {-1, 0, 1, 2, 3, 4}
LimitInputs == {-10, 0, 1, 10, MAX_PAGE_SIZE + 1}

\* JavaScript numbers: the integers, Infinity and NaN
Num(n) == [kind |-> "number", n |-> n]
Infinity == [kind |-> "Infinity"]
NaN == [kind |-> "NaN"]

\* Math.ceil(totalCount / limitNum)
MathCeilDiv(total, limit) ==
    IF limit > 0 THEN Num((total + limit - 1) \div limit)
    ELSE IF limit < 0 THEN Num(0 - (total \div (0 - limit)))
    ELSE IF total = 0 THEN NaN
    ELSE Infinity

\* pageNum < totalPages
LessThan(n, x) ==
    CASE x.kind = "number" -> n < x.n
      [] x.kind = "Infinity" -> TRUE
      [] x.kind = "NaN" -> FALSE

\* find(filter).sort().skip(skip).limit(limitNum) over `total` matching rows:
\* the number of rows the cursor yields; limit(0) sets no limit and a negative
\* limit asks for a single batch of that many rows
RowsReturned(total, skip, limit) ==
    LET rest == Max(0, total - skip)
    IN IF limit = 0 THEN rest
       ELSE IF limit < 0 THEN Min(rest, 0 - limit)
       ELSE Min(rest, limit)

\* a list request (getProperties, getFavorites, getReceivedRecommendations)
\* whose filter matches `total` rows: the three pagination lines, the query
\* and the pagination block of the response; the server rejects a negative
\* skip and the handler's catch answers 500
ListPage(r, total, page, limit) ==
    /\ req[r] = Idle
    /\ LET q == [type |-> NoFilter, page |-> page, limit |-> limit]
           totalPages == MathCeilDiv(total, LimitNum(q))
           base == [op |-> "listPage", total |-> total, q |-> q,
                    pageNum |-> PageNum(q), limitNum |-> LimitNum(q),
                    skip |-> Skip(q)]
       IN IF Skip(q) < 0
          THEN Finish(r, 500, base)
          ELSE Finish(r, 200,
                      [returned |-> RowsReturned(total, Skip(q), LimitNum(q)),
                       totalPages |-> totalPages,
                       hasNextPage |-> LessThan(PageNum(q), totalPages)] @@ base)
    /\ UNCHANGED <<propVars, favVars, recVars, users, reminderOps>>

NextPaging ==
    \/ \E total \in 0..MaxTotal, page \in PageInputs, limit \in LimitInputs :
          ListPage("a", total, page, limit)
    \/ Return("a")
SpecPaging == InitListed /\ [][NextPaging]_vars

\* ceil(T / s) for a positive s
Ceil(T, s) == (T + s - 1) \div s

\* C22: a list request over T matching rows with effective page p and
\* effective size s returns min(s, max(0, T - (p - 1) * s)) rows, reports
\* totalPages = ceil(T / s), and hasNextPage exactly when p < totalPages.
C22_PageArithmetic ==
    \A r \in Procs :
        Answered(r, "listPage") =>
            LET T == req[r].total
                p == req[r].pageNum
                s == req[r].limitNum
            IN /\ req[r].status = 200
               /\ req[r].returned = Min(s, Max(0, T - (p - 1) * s))
               /\ s > 0
               /\ req[r].totalPages = Num(Ceil(T, s))
               /\ req[r].hasNextPage <=> (p < Ceil(T, s))

\* C23: for every integer page and limit supplied to a list endpoint, the
\* effective page is at least 1, the effective page size lies between 1 and
\* MAX_PAGE_SIZE, and the offset is (page - 1) * size and never negative.
C23_EffectivePagingInRange ==
    \A r \in Procs :
        Answered(r, "listPage") =>
            /\ req[r].pageNum >= 1
            /\ req[r].limitNum >= 1
            /\ req[r].limitNum <= MAX_PAGE_SIZE
            /\ req[r].skip = (req[r].pageNum - 1) * req[r].limitNum
            /\ req[r].skip >= 0


\* ------------------------------------------------- recommendation counters
\* sends whose save() has run its pre('save') hook and not yet its insert
SavingSends(field, u) ==
    Cardinality({r \in Procs : /\ req[r].op = "sendRecommendation"
                               /\ req[r].pc = "insert"
                               /\ req[r][field] = u})

\* C24: every sendRecommendation that stores a row raises its sender's
\* recommendationsSent and its recipient's recommendationsReceived by exactly
\* one, and a send that stores no row (one that loses the race at the unique
\* index included) leaves both unchanged: with no row ever removed, each
\* counter equals the rows stored plus the saves still under way.
C24_CountersFollowStoredRows ==
    \A u \in Users :
        /\ recsSent[u] = RecsSentBy(u) + SavingSends("user", u)
        /\ recsReceived[u] = RecsReceivedBy(u) + SavingSends("to", u)


\* ------------------------------------------ recommendation list freshness
\* recommendation requests of every kind, one after the other, within a day
NextRecListSerial == RecStep("a") \/ SendReminderStep("a") \/ GetReceivedStep("a")
SpecRecListSerial == InitRecommended /\ [][NextRecListSerial]_vars

\* a request that has changed a stored Recommendation and been answered
ChangedRecommendation(r) ==
    \/ Answered(r, "sendRecommendation") /\ req[r].status = 201
    \/ Answered(r, "updateRecommendationStatus") /\ req[r].status = 200
           /\ recs[req[r].id] # req[r].found
    \/ Answered(r, "getRecommendationById") /\ req[r].status = 200
           /\ recs[req[r].id] # req[r].found
    \/ Answered(r, "sendReminder") /\ req[r].status = 200

\* C25: with requests handled one after the other, a request that has
\* changed a stored Recommendation leaves no "recommendations:*" entry in the
\* cache when it completes, and every received-recommendations list that is
\* served equals the list the store holds for that user at that time.
C25_ListInvalidatedOnChange ==
    \A r \in Procs :
        /\ ChangedRecommendation(r) =>
              \A k \in DOMAIN cache : k.ns = "recommendations" => cache[k] = Miss
        /\ (Answered(r, "getReceivedRecommendations") /\ req[r].status = 200) =>
              req[r].body = ReceivedList(recs, props, req[r].user, req[r].at)


\* ------------------------------------------------ failing counter updates
\* User.findByIdAndUpdate rejects (the store drops the connection after the
\* property write): the await throws past the cache invalidation into the
\* handler's catch, which answers 500
StatsUpdateFails(r) ==
    /\ req[r].op \in {"createProperty", "deleteProperty"}
    /\ req[r].pc = "stats"
    /\ Finish(r, 500, [statsFailed |-> TRUE])
    /\ UNCHANGED <<propVars, favVars, recVars, users, reminderOps>>

\* property requests one after the other, with failing counter updates
NextStatsFault == PropStep("a") \/ StatsUpdateFails("a")
SpecStatsFault == Init /\ [][NextStatsFault]_vars

\* a createProperty or deleteProperty whose property write was persisted
\* and whose response has been written
WritePersisted(r) ==
    \/ Answered(r, "createProperty")
    \/ Answered(r, "deleteProperty") /\ req[r].status \in {200, 500}

\* C26: when a createProperty or deleteProperty that persisted its property
\* write has ended, no "properties:*" entry computed before the write is left
\* in the cache, also when the counter update failed, and the write is still
\* in the store.
C26_InvalidatedAfterPersistedWrite ==
    \A r \in Procs :
        WritePersisted(r) =>
            /\ \A k \in DOMAIN cache :
                  (k.ns = "properties" /\ cache[k] # Miss) => ~cache[k].stale
            /\ props[req[r].id].exists
            /\ req[r].op = "deleteProperty" => ~props[req[r].id].isActive


\* ------------------------------------------------------ listing counters
\* a store whose only property was created by u1 and then soft-deleted
InitSoftDeleted ==
    /\ InitUsers
    /\ InitIdle
    /\ props = [p \in PropIds |->
                  IF p = 1
                  THEN [exists |-> TRUE, createdBy |-> "u1", isActive |-> FALSE,
                        ptype |-> "Villa", title |-> Title]
                  ELSE NoDoc]

CreatePropertyStep(r) ==
    \/ \E u \in Users, t \in PropertyTypes : CreatePropertySave(r, u, t)
    \/ CreatePropertyStats(r)
    \/ CreatePropertyInvalidate(r)

\* createProperty and deleteProperty requests, one after the other
NextListingSerial ==
    CreatePropertyStep("a") \/ DeletePropertyStep("a") \/ Return("a")
SpecListingSerial == InitSoftDeleted /\ [][NextListingSerial]_vars

ActiveListings(u) ==
    {p \in PropIds : props[p].exists /\ props[p].createdBy = u /\ props[p].isActive}

\* C27: after any sequence of createProperty and deleteProperty requests
\* handled one after the other without failures, a deleteProperty repeated on
\* a soft-deleted property included, every user's stats.propertiesListed is
\* not negative and equals the number of active properties the user created.
C27_ListedCountMatchesActive ==
    Quiescent =>
        \A u \in Users :
            /\ propertiesListed[u] >= 0
            /\ propertiesListed[u] = Cardinality(ActiveListings(u))


\* ------------------------------------------------------- cache key identity
\* C28: a getProperties answer taken from the cache was computed for the
\* filter, page and limit of the request it answers, and no two requests that
\* differ in a filter value share a cache key.
C28_CacheKeyIdentifiesQuery ==
    /\ \A r \in Procs :
          (Answered(r, "getProperties") /\ req[r].status = 200 /\ req[r].fromCache)
              => req[r].computedFor = req[r].q
    /\ \A r \in Procs, q \in Queries :
          (Answered(r, "getProperties") /\ q.type # req[r].q.type)
              => CacheKey(q) # CacheKey(req[r].q)


\* ------------------------------------------------------ generatePropertyId
FIRST_NUMBER == 1000

\* Math.floor(Math.random() * 9000) + 1000, with as many numbers as the
\* store can hold documents
PropertyNumbers == FIRST_NUMBER..(FIRST_NUMBER + MaxProps - 1)

\* `PROP${randomNum}`
PropertyIdOf(n) == <<"PROP", n>>

StoredPropertyIds == {props[p].id : p \in {x \in PropIds : props[x].exists}}

\* a store holding any of the properties, each under its business id
InitNumbered ==
    /\ InitUsers
    /\ InitIdle
    /\ \E S \in SUBSET PropIds :
          props = [p \in PropIds |->
                     IF p \in S
                     THEN [exists |-> TRUE, createdBy |-> "u1", isActive |-> TRUE,
                           ptype |-> "Villa", title |-> Title,
                           id |-> PropertyIdOf(FIRST_NUMBER + p - 1)]
                     ELSE NoDoc]

\* createProperty with no id in the body: new Property(propertyData)
SaveWithoutId(r) ==
    /\ req[r] = Idle
    /\ Goto(r, "validate", [op |-> "saveWithoutId"])
    /\ UNCHANGED <<propVars, favVars, recVars, users, reminderOps>>

\* property.save(): validation is the first pre('save') hook and runs before
\* the hook that would generate the id; id is required, so the save is
\* rejected with a ValidationError and the handler answers 400
SaveValidate(r) ==
    /\ req[r].op = "saveWithoutId" /\ req[r].pc = "validate"
    /\ Finish(r, 400, [error |-> "ValidationError"])
    /\ UNCHANGED <<propVars, favVars, recVars, users, reminderOps>>

\* generatePropertyId() called on a document
GeneratePropertyIdCall(r) ==
    /\ req[r] = Idle
    /\ Goto(r, "draw", [op |-> "generatePropertyId"])
    /\ UNCHANGED <<propVars, favVars, recVars, users, reminderOps>>

\* randomNum and propertyId of one turn of the loop
GenerateDraw(r, n) ==
    /\ req[r].op = "generatePropertyId" /\ req[r].pc = "draw"
    /\ Goto(r, "check", [propertyId |-> PropertyIdOf(n)])
    /\ UNCHANGED <<propVars, favVars, recVars, users, reminderOps>>

\* Property.findOne({ id: propertyId }): the loop ends when nothing is found
GenerateCheck(r) ==
    /\ req[r].op = "generatePropertyId" /\ req[r].pc = "check"
    /\ IF req[r].propertyId \in StoredPropertyIds
       THEN Goto(r, "draw", <<>>)
       ELSE Finish(r, 200, <<>>)
    /\ UNCHANGED <<propVars, favVars, recVars, users, reminderOps>>

GenerateStep(r) ==
    \/ SaveWithoutId(r)
    \/ SaveValidate(r)
    \/ GeneratePropertyIdCall(r)
    \/ \E n \in PropertyNumbers : GenerateDraw(r, n)
    \/ GenerateCheck(r)
    \/ Return(r)

\* every await resumes, and every number keeps being drawn as long as the
\* loop keeps drawing
NextGenerate == \E r \in Procs : GenerateStep(r)
SpecGenerate ==
    /\ InitNumbered
    /\ [][NextGenerate]_vars
    /\ \A r \in Procs :
          /\ WF_vars(SaveValidate(r))
          /\ WF_vars(GenerateCheck(r))
          /\ \A n \in PropertyNumbers : SF_vars(GenerateDraw(r, n))

\* C30: a save of a new Property without a business id, and every call of
\* generatePropertyId, eventually returns an id PROP<number> of the range
\* that no stored Property has.
C30_GeneratePropertyIdTerminates ==
    \A r \in Procs :
        (req[r].op \in {"saveWithoutId", "generatePropertyId"} /\ ~Done(r))
            ~> (/\ Done(r)
                /\ req[r].status = 200
                /\ req[r].propertyId \in {PropertyIdOf(n) : n \in PropertyNumbers}
                /\ req[r].propertyId \notin StoredPropertyIds)

====
